---- MODULE Spec2Model ----
(***************************************************************************)
(* AIResearchScribe: the article routes of server/routes.ts                *)
(* (registerRoutes), the Response Validator of client/src/lib/openai.ts    *)
(* and the tables of db/schema.ts, as a state machine.                     *)
(*                                                                         *)
(* Values that cross a JavaScript/JSON boundary are tagged records:        *)
(*   [t |-> "undef"]  [t |-> "null"]  [t |-> "bool", bv |-> b]              *)
(*   [t |-> "num", nv |-> n]  [t |-> "str", sv |-> <<chars>>]               *)
(*   [t |-> "arr", av |-> <<values>>]  [t |-> "obj", ov |-> [key |-> value]]*)
(* A string is a sequence of one-character strings.  Error messages, which *)
(* the code never inspects beyond truthiness, are plain TLA+ strings.      *)
(***************************************************************************)
EXTENDS Integers, Sequences, FiniteSets, TLC

\* ------------------------------------------------------------------ bounds

\* Number of generate requests that can be in flight or finished.
NumReqs == 2
Reqs == 1..NumReqs

\* Catalog: the articles table holds at most MaxArticles rows, and the clock
\* takes the values 0..MaxClock.
MaxArticles == 3
MaxClock == 1

\* The page in the browser: the articles table holds CatalogSize rows, and
\* the user ticks the boxes of the first MaxTicked articles shown.
CatalogSize == 20
MaxTicked == 1

\* The form in the browser: the speech service fails with 'network' at most
\* MaxRestarts + 1 times in a row.
MaxRestarts == 4

\* Rate limiter: a client sends at most MaxExcess requests beyond its limit
\* in one window.
MaxExcess == 1

\* ------------------------------------------------------------ JSON values

Undef == [t |-> "undef"]
Null == [t |-> "null"]
Bool(b) == [t |-> "bool", bv |-> b]
Num(n) == [t |-> "num", nv |-> n]
Str(s) == [t |-> "str", sv |-> s]
Arr(a) == [t |-> "arr", av |-> a]
Obj(o) == [t |-> "obj", ov |-> o]

\* JavaScript truthiness (the operand of `!` and `||`).
Truthy(v) ==
  CASE v.t = "undef" -> FALSE
    [] v.t = "null" -> FALSE
    [] v.t = "bool" -> v.bv
    [] v.t = "num" -> v.nv # 0
    [] v.t = "str" -> Len(v.sv) > 0
    [] OTHER -> TRUE

\* obj[key] of a JSON object: undefined when the key is absent.
Field(o, k) == IF k \in DOMAIN o THEN o[k] ELSE Undef

\* ------------------------------------------------- the Response Validator

ValidationError == [ok |-> FALSE]

\* z.string()
IsZString(v) == v.t = "str"
\* z.string().optional() / z.number().optional(): undefined or the type.
IsZOptString(v) == v.t = "undef" \/ v.t = "str"
IsZOptNumber(v) == v.t = "undef" \/ v.t = "num"

\* The citation element schema: z.object({source, author?, year?, url?, quote?}).
CitationSchemaNoSourceCheck(c) ==
  /\ c.t = "obj"
  /\ IsZOptString(Field(c.ov, "author"))
  /\ IsZOptNumber(Field(c.ov, "year"))
  /\ IsZOptString(Field(c.ov, "url"))
  /\ IsZOptString(Field(c.ov, "quote"))

CitationSchema(c) ==
  /\ c.t = "obj"
  /\ IsZString(Field(c.ov, "source"))
  /\ IsZOptString(Field(c.ov, "author"))
  /\ IsZOptNumber(Field(c.ov, "year"))
  /\ IsZOptString(Field(c.ov, "url"))
  /\ IsZOptString(Field(c.ov, "quote"))

\* What z.object(...).parse returns for one citation: the known keys only.
ParsedCitation(c) ==
  [source |-> Field(c.ov, "source"),
   author |-> Field(c.ov, "author"),
   year |-> Field(c.ov, "year"),
   url |-> Field(c.ov, "url"),
   quote |-> Field(c.ov, "quote")]

\* articleResponseSchema: does `data` match?
articleResponseSchema(data) ==
  /\ data.t = "obj"
  /\ IsZString(Field(data.ov, "title"))
  /\ IsZString(Field(data.ov, "content"))
  /\ IsZString(Field(data.ov, "summary"))
  /\ Field(data.ov, "citations").t = "arr"
  /\ \A i \in DOMAIN Field(data.ov, "citations").av :
       CitationSchema(Field(data.ov, "citations").av[i])

\* validateArticleResponse: the parsed draft, or the thrown error.
validateArticleResponse(data) ==
  IF articleResponseSchema(data)
  THEN [ok |-> TRUE,
        title |-> data.ov.title.sv,
        content |-> data.ov.content.sv,
        summary |-> data.ov.summary.sv,
        citations |-> [i \in DOMAIN data.ov.citations.av |->
                         ParsedCitation(data.ov.citations.av[i])]]
  ELSE ValidationError

\* ------------------------------------------------------- string helpers

DigitChars == {"0", "1", "2", "3", "4", "5", "6", "7", "8", "9"}
DigitVal ==
  "0" :> 0 @@ "1" :> 1 @@ "2" :> 2 @@ "3" :> 3 @@ "4" :> 4 @@
  "5" :> 5 @@ "6" :> 6 @@ "7" :> 7 @@ "8" :> 8 @@ "9" :> 9

NaN == [t |-> "nan"]

\* The value of the longest prefix of digits of s from position i, given the
\* value acc of the digits before i.
RECURSIVE DigitsFrom(_, _, _)
DigitsFrom(s, i, acc) ==
  IF i <= Len(s) /\ s[i] \in DigitChars
  THEN DigitsFrom(s, i + 1, acc * 10 + DigitVal[s[i]])
  ELSE acc

\* Index of the first character of s at or after i that is not a blank.
RECURSIVE SkipBlanks(_, _)
SkipBlanks(s, i) ==
  IF i <= Len(s) /\ s[i] = " " THEN SkipBlanks(s, i + 1) ELSE i

\* JavaScript parseInt(s): blanks, an optional sign, then the longest prefix
\* of decimal digits; NaN when there is no digit.
parseInt(s) ==
  LET i == SkipBlanks(s, 1)
      neg == i <= Len(s) /\ s[i] = "-"
      j == IF i <= Len(s) /\ s[i] \in {"-", "+"} THEN i + 1 ELSE i
  IN IF j <= Len(s) /\ s[j] \in DigitChars
     THEN Num(IF neg THEN 0 - DigitsFrom(s, j, 0) ELSE DigitsFrom(s, j, 0))
     ELSE NaN

isNaN(v) == v.t = "nan"

UpperToLower ==
  "A" :> "a" @@ "B" :> "b" @@ "C" :> "c" @@ "D" :> "d" @@ "E" :> "e" @@
  "F" :> "f" @@ "G" :> "g" @@ "H" :> "h" @@ "I" :> "i" @@ "J" :> "j" @@
  "K" :> "k" @@ "L" :> "l" @@ "M" :> "m" @@ "N" :> "n" @@ "O" :> "o" @@
  "P" :> "p" @@ "Q" :> "q" @@ "R" :> "r" @@ "S" :> "s" @@ "T" :> "t" @@
  "U" :> "u" @@ "V" :> "v" @@ "W" :> "w" @@ "X" :> "x" @@ "Y" :> "y" @@
  "Z" :> "z"

LowerChars == {UpperToLower[c] : c \in DOMAIN UpperToLower}

\* String.prototype.toLowerCase on one character.
toLowerCase(c) == IF c \in DOMAIN UpperToLower THEN UpperToLower[c] ELSE c

\* title.toLowerCase().replace(/[^a-z0-9]/g, '-')
Slug(title) ==
  [i \in DOMAIN title |->
     IF toLowerCase(title[i]) \in LowerChars \cup DigitChars
     THEN toLowerCase(title[i])
     ELSE "-"]

\* Index of the first ">" of s at or after i, or 0 when there is none.
RECURSIVE FindClose(_, _)
FindClose(s, i) ==
  IF i > Len(s) THEN 0
  ELSE IF s[i] = ">" THEN i
  ELSE FindClose(s, i + 1)

\* content.replace(/<[^>]*>/g, ''), scanning from position i.
RECURSIVE StripFrom(_, _)
StripFrom(s, i) ==
  IF i > Len(s) THEN <<>>
  ELSE IF s[i] = "<" /\ FindClose(s, i + 1) # 0
       THEN StripFrom(s, FindClose(s, i + 1) + 1)
       ELSE <<s[i]>> \o StripFrom(s, i + 1)

StripTags(s) == StripFrom(s, 1)

\* ------------------------------------------------------------------ state

VARIABLES
  apiKey,      \* process.env.OPENAI_API_KEY is set
  now,         \* the clock read by Date.now(), new Date() and the database
  articles,    \* table articles: row i has id i (identity column)
  citations,   \* table citations: row i has id i
  citationBy,  \* history: the generate request that inserted citation row i
  s3,          \* bucket article-images-ai: object key -> request that wrote it
  req,         \* the generate requests: position, locals, response
  resp,        \* the response an archive / citations / speech / list request
               \* is sending, with the request
  listReq,     \* the GET /api/articles request between its two queries
  vIn,         \* Response Validator on its own: the input
  vOut,        \* Response Validator on its own: the result ([ok |-> ...])
  limiter,     \* openaiLimiter: its store of hits, the request it answered
  home,        \* HomePage in the browser: its state, the SWR cache, its fetch
  form         \* ResearchForm in the browser: speech recognition and retries

vars ==
  <<apiKey, now, articles, citations, citationBy, s3, req, resp, listReq, vIn,
    vOut, limiter, home, form>>

\* ------------------------------------------------------------- the inputs

\* req.body.topic
Topics ==
  { Undef, Num(7), Str(<<>>), Str(<<"a", "i">>), Str(<<"a", "i", "s">>) }

\* Provider replies to chat.completions.create, as parsed JSON values.
CitationA == Obj([source |-> Str(<<"A">>)])
CitationB == Obj([source |-> Str(<<"B">>), year |-> Num(2020)])
CitationNoSource == Obj([author |-> Str(<<"X">>)])

ReplyTwoCitations ==
  Obj([title |-> Str(<<"A", "I">>), content |-> Str(<<"<", "p", ">", "x">>),
       summary |-> Str(<<"s">>), citations |-> Arr(<<CitationA, CitationB>>),
       note |-> Str(<<"n">>)])
ReplyNoCitations ==
  Obj([title |-> Str(<<"a", "i">>), content |-> Str(<<"y">>),
       summary |-> Str(<<"s">>), citations |-> Arr(<<>>)])
ReplyEmptyTitle ==
  Obj([title |-> Str(<<>>), content |-> Str(<<"y">>),
       summary |-> Str(<<"s">>), citations |-> Arr(<<>>)])
ReplyMissingSummary ==
  Obj([title |-> Str(<<"A", "I">>), content |-> Str(<<"y">>),
       citations |-> Arr(<<>>)])
ReplyCitationNoSource ==
  Obj([title |-> Str(<<"A", "I">>), content |-> Str(<<"y">>),
       summary |-> Str(<<"s">>), citations |-> Arr(<<CitationNoSource>>)])

\* completion.choices[0]?.message?.content: undefined, or a text, given by
\* whether it is empty and by what JSON.parse makes of it.
SyntaxError == [ok |-> FALSE]
Text(v) == [t |-> "text", empty |-> FALSE, json |-> [ok |-> TRUE, val |-> v]]
EmptyText == [t |-> "text", empty |-> TRUE, json |-> SyntaxError]
NotJsonText == [t |-> "text", empty |-> FALSE, json |-> SyntaxError]

Contents ==
  { Undef, EmptyText, NotJsonText, Text(Arr(<<>>)), Text(ReplyMissingSummary),
    Text(ReplyCitationNoSource), Text(ReplyTwoCitations), Text(ReplyNoCitations),
    Text(ReplyEmptyTitle) }

\* What the text call yields: a thrown error (with its message) or a completion.
TextOutcomes ==
  { [kind |-> "throw", msg |-> m] : m \in {"", "429 quota exceeded"} }
    \cup { [kind |-> "reply", content |-> c] : c \in Contents }

JSONparse(c) == c.json

\* ------------------------------------------------------ generate: helpers

\* No archive / citations / speech / list response is being sent.
NoResp == [op |-> "none"]

\* No GET /api/articles request is between its two queries.
NoList == [pc |-> "none"]

NoFile == [t |-> "undef"]
NoArticle == [id |-> 0]
\* History: no completion has been received yet.
NoContent == [t |-> "none"]
\* A local the handler no longer reads.
Dead == [t |-> "dead"]

IdleReq ==
  [pc |-> "idle", topic |-> Undef, content |-> NoContent, draft |-> ValidationError,
   fileName |-> NoFile, imageUrl |-> Undef, audioUrl |-> Undef, createdAt |-> 0,
   article |-> NoArticle, pending |-> {}, status |-> 0, error |-> "",
   log |-> <<>>, failedAt |-> "none"]

\* The stages of one generate request, in the order the handler is written.
StageOrder ==
  << "text", "validate", "imageGen", "download", "upload", "sign", "audio",
     "insertArticle", "insertCitations" >>

\* The handler issues the call of `stage` and awaits it.
Start(q, stage) == [q EXCEPT !.pc = stage, !.log = Append(@, stage)]

\* History: the first stage of the request whose call failed.
MarkFailed(q, stage) ==
  [q EXCEPT !.failedAt = IF @ = "none" THEN stage ELSE @]

\* The guard of the handler's first statement.
InvalidTopicNoTruthyCheck(topic) == topic.t # "str"

InvalidTopic(topic) == ~Truthy(topic) \/ topic.t # "str"

\* res.status(400).json({error})
Respond400(q, msg) == [q EXCEPT !.pc = "done", !.status = 400, !.error = msg]

\* res.json(article)
Respond200(q) == [q EXCEPT !.pc = "done", !.status = 200]

\* The outer catch: res.status(500).json({error: error.message}).
OuterCatchNoResponse(q, msg) == [q EXCEPT !.error = msg]

OuterCatch(q, msg) == [q EXCEPT !.pc = "done", !.status = 500, !.error = msg]

\* catch of the text call: throw new Error(error.message || '...').
TextCatchRetry(q, msg) == Start(q, "text")

TextCatch(q, msg) ==
  OuterCatch(q, IF msg # "" THEN msg ELSE "Failed to generate article content")

\* JSON.parse then validateArticleResponse, inside one try.
ParseAndValidateUnchecked(c) ==
  IF ~JSONparse(c).ok THEN ValidationError
  ELSE IF articleResponseSchema(JSONparse(c).val)
       THEN validateArticleResponse(JSONparse(c).val)
       ELSE [ok |-> TRUE, title |-> <<>>, content |-> <<>>, summary |-> <<>>,
             citations |-> <<>>]

ParseAndValidate(c) ==
  IF ~JSONparse(c).ok THEN ValidationError
  ELSE validateArticleResponse(JSONparse(c).val)

ParseCatch(q) == OuterCatch(q, "Failed to parse generated content")

\* catch of the image stage: the error is rethrown.
ImageCatchBestEffort(q) == Start(q, "audio")

ImageCatch(q) == OuterCatch(q, "Failed to generate or process image")

\* catch of the audio stage.
AudioCatch(q) == OuterCatch(q, "Failed to generate audio content")

\* catch around the article insert and the citation inserts.
DatabaseCatchSwallow(q) == Respond200(q)

DatabaseCatch(q) == OuterCatch(q, "Failed to save article to database")

\* `${Date.now()}-${slug}.png`
FileName(ts, title) == [ts |-> ts, slug |-> Slug(title)]

\* getSignedUrl for the object key.
SignedUrl(key) == [t |-> "url", key |-> key]

\* `data:audio/mpeg;base64,...` of the speech synthesized for `input`.
DataUrl(input) == [t |-> "data", speechOf |-> input]

\* What the driver stores for a JavaScript value: undefined becomes NULL.
DbValue(v) == IF v.t = "undef" THEN Null ELSE v

\* The row INSERT INTO articles ... RETURNING yields.
ArticleRowFirstId(id, q, dbNow) ==
  [id |-> 1, title |-> q.draft.title, content |-> q.draft.content,
   summary |-> q.draft.summary, imageUrl |-> DbValue(q.imageUrl),
   audioUrl |-> DbValue(q.audioUrl), archived |-> FALSE,
   createdAt |-> q.createdAt, updatedAt |-> dbNow, userId |-> Null]

ArticleRow(id, q, dbNow) ==
  [id |-> id, title |-> q.draft.title, content |-> q.draft.content,
   summary |-> q.draft.summary, imageUrl |-> DbValue(q.imageUrl),
   audioUrl |-> DbValue(q.audioUrl), archived |-> FALSE,
   createdAt |-> q.createdAt, updatedAt |-> dbNow, userId |-> Null]

\* The articleId a citation insert of the request carries.
CitationArticleIdLatest(q) == Len(articles)

CitationArticleId(q) == q.article.id

\* The row INSERT INTO citations stores for a citation of the draft.
CitationRowNoYear(id, articleId, c) ==
  [id |-> id, articleId |-> articleId, source |-> c.source.sv,
   author |-> DbValue(c.author), year |-> Null,
   url |-> DbValue(c.url), quote |-> DbValue(c.quote)]

CitationRow(id, articleId, c) ==
  [id |-> id, articleId |-> articleId, source |-> c.source.sv,
   author |-> DbValue(c.author), year |-> DbValue(c.year),
   url |-> DbValue(c.url), quote |-> DbValue(c.quote)]

\* citations.article_id REFERENCES articles(id)
ForeignKeyHolds(articleId) == articleId \in DOMAIN articles

\* ------------------------------------------------------ generate: actions

\* POST /api/articles/generate arrives: the topic check, the API key check,
\* and the text call is issued.
Generate(r, topic) ==
  /\ resp = NoResp
  /\ req[r].pc = "idle"
  /\ LET q == [req[r] EXCEPT !.topic = topic] IN
       req' = [req EXCEPT ![r] =
                 IF InvalidTopic(topic) THEN Respond400(q, "Invalid topic provided")
                 ELSE IF ~apiKey
                      THEN OuterCatch(q, "OpenAI API key is not configured")
                      ELSE Start(q, "text")]
  /\ UNCHANGED <<apiKey, now, articles, citations, citationBy, s3, resp,
                 listReq, vIn, vOut, limiter, home, form>>

\* The text call settles: content check, JSON.parse and validation, and the
\* image call is issued.  The handler does not read `topic` again: the
\* variable is dead from here on and the model drops its value.
TextReturns(r, out) ==
  /\ resp = NoResp
  /\ req[r].pc = "text"
  /\ LET q == [req[r] EXCEPT !.topic = Dead] IN
       req' = [req EXCEPT ![r] =
         IF out.kind = "throw"
         THEN MarkFailed(TextCatch(q, out.msg), "text")
         ELSE LET q1 == [q EXCEPT !.content = out.content] IN
           IF out.content.t = "undef" \/ out.content.empty
           THEN MarkFailed(OuterCatch(q1, "No content generated from OpenAI"), "text")
           ELSE LET q2 == [q1 EXCEPT !.log = Append(@, "validate")]
                    d == ParseAndValidate(out.content)
                IN IF ~d.ok THEN MarkFailed(ParseCatch(q2), "validate")
                   ELSE Start([q2 EXCEPT !.draft = d], "imageGen")]
  /\ UNCHANGED <<apiKey, now, articles, citations, citationBy, s3, resp,
                 listReq, vIn, vOut, limiter, home, form>>

\* images.generate settles: thrown, a reply without a URL, or a URL, which is
\* then fetched.
ImageGenReturns(r, out) ==
  /\ resp = NoResp
  /\ req[r].pc = "imageGen"
  /\ req' = [req EXCEPT ![r] =
       IF out = "url" THEN Start(@, "download")
       ELSE MarkFailed(ImageCatch(@), "imageGen")]
  /\ UNCHANGED <<apiKey, now, articles, citations, citationBy, s3, resp,
                 listReq, vIn, vOut, limiter, home, form>>

\* fetch(url) and arrayBuffer() settle: thrown, a non-ok status, or the bytes;
\* the file name is built and the upload is issued.
DownloadReturns(r, out) ==
  /\ resp = NoResp
  /\ req[r].pc = "download"
  /\ req' = [req EXCEPT ![r] =
       IF out = "ok"
       THEN Start([@ EXCEPT !.fileName = FileName(now, req[r].draft.title)],
                  "upload")
       ELSE MarkFailed(ImageCatch(@), "download")]
  /\ UNCHANGED <<apiKey, now, articles, citations, citationBy, s3, resp,
                 listReq, vIn, vOut, limiter, home, form>>

\* uploadImageToS3: s3Client.send(putCommand) settles; getSignedUrl is issued.
UploadReturns(r, ok) ==
  /\ resp = NoResp
  /\ req[r].pc = "upload"
  /\ req' = [req EXCEPT ![r] =
       IF ok THEN Start(@, "sign") ELSE MarkFailed(ImageCatch(@), "upload")]
  /\ s3' = IF ok THEN (req[r].fileName :> r) @@ s3 ELSE s3
  /\ UNCHANGED <<apiKey, now, articles, citations, citationBy, resp, listReq,
                 vIn, vOut, limiter, home, form>>

\* uploadImageToS3: getSignedUrl settles; the speech call is issued.
SignReturns(r, ok) ==
  /\ resp = NoResp
  /\ req[r].pc = "sign"
  /\ req' = [req EXCEPT ![r] =
       IF ok THEN Start([@ EXCEPT !.imageUrl = SignedUrl(req[r].fileName)], "audio")
       ELSE MarkFailed(ImageCatch(@), "sign")]
  /\ UNCHANGED <<apiKey, now, articles, citations, citationBy, s3, resp,
                 listReq, vIn, vOut, limiter, home, form>>

\* audio.speech.create and arrayBuffer() settle; the article insert is issued
\* with createdAt: new Date().
AudioReturns(r, ok) ==
  /\ resp = NoResp
  /\ req[r].pc = "audio"
  /\ req' = [req EXCEPT ![r] =
       IF ok
       THEN Start([@ EXCEPT !.audioUrl = DataUrl(StripTags(req[r].draft.content)),
                            !.createdAt = now], "insertArticle")
       ELSE MarkFailed(AudioCatch(@), "audio")]
  /\ UNCHANGED <<apiKey, now, articles, citations, citationBy, s3, resp,
                 listReq, vIn, vOut, limiter, home, form>>

\* The article insert settles; every citation insert is issued at once
\* (Promise.all), or with no citation the article is sent.
InsertArticleReturns(r, ok) ==
  /\ resp = NoResp
  /\ req[r].pc = "insertArticle"
  /\ LET q == req[r]
         row == ArticleRow(Len(articles) + 1, q, now)
     IN /\ articles' = IF ok THEN Append(articles, row) ELSE articles
        /\ req' = [req EXCEPT ![r] =
             IF ~ok THEN MarkFailed(DatabaseCatch(q), "insertArticle")
             ELSE IF q.draft.citations = <<>>
                  THEN Respond200([q EXCEPT !.article = row])
                  ELSE Start([q EXCEPT !.article = row,
                                       !.pending = DOMAIN q.draft.citations],
                             "insertCitations")]
  /\ UNCHANGED <<apiKey, now, citations, citationBy, s3, resp, listReq, vIn,
                 vOut, limiter, home, form>>

\* One citation insert settles.  The first rejection rejects Promise.all and
\* the handler answers; the inserts still in flight settle afterwards.
CitationInsertReturns(r, i, ok) ==
  /\ resp = NoResp
  /\ i \in req[r].pending
  /\ LET q == [req[r] EXCEPT !.pending = @ \ {i}]
         stored == ok /\ ForeignKeyHolds(CitationArticleId(q))
     IN /\ citations' =
             IF stored
             THEN Append(citations, CitationRow(Len(citations) + 1,
                                                CitationArticleId(q),
                                                q.draft.citations[i]))
             ELSE citations
        /\ citationBy' = IF stored THEN Append(citationBy, r) ELSE citationBy
        /\ req' = [req EXCEPT ![r] =
             IF q.pc # "insertCitations" THEN q
             ELSE IF ~stored THEN MarkFailed(DatabaseCatch(q), "insertCitations")
             ELSE IF q.pending = {} THEN Respond200(q)
             ELSE q]
  /\ UNCHANGED <<apiKey, now, articles, s3, resp, listReq, vIn, vOut, limiter,
                 home, form>>

\* --------------------------------------------------- the endpoints: inputs

\* req.params.id
IdParams == { <<"1">>, <<"2">>, <<"x">>, <<"1", "x">> }

\* The path segment of PATCH /api/articles/bulk/archive.
BulkSegment == <<"b", "u", "l", "k">>

\* req.body.archived
ArchivedValues == { Bool(TRUE), Bool(FALSE), Str(<<"1">>) }

\* req.body.articleIds
ArticleIdLists ==
  { Undef, Arr(<<>>), Arr(<<Num(1)>>), Arr(<<Num(2), Num(2)>>),
    Arr(<<Num(1), Num(2), Num(3)>>) }

\* req.body of a PATCH request.
Body(archived, articleIds) == [archived |-> archived, articleIds |-> articleIds]

\* What audio.speech.create yields for POST /api/articles/:id/speech.
SpeechOutcomes == { [kind |-> "throw", msg |-> "503 overloaded"], [kind |-> "audio"] }

\* req.query of GET /api/articles: each parameter is a string or absent.
TrueString == <<"t", "r", "u", "e">>
ShowArchivedValues == { Undef, Str(TrueString) }
PagesAndLimits ==
  { <<Undef, Undef>>, <<Str(<<"0">>), Str(<<"2">>)>>,
    <<Str(<<"2">>), Str(<<"2">>)>>, <<Str(<<"3">>), Str(<<"2">>)>>,
    <<Str(<<"-", "1">>), Undef>>, <<Undef, Str(<<"-", "1">>)>> }

Queries ==
  { [showArchived |-> a, page |-> pl[1], limit |-> pl[2]] :
      a \in ShowArchivedValues, pl \in PagesAndLimits }

\* ------------------------------------------------------------ the archive

\* inArray(articles.id, articleIds)
inArray(id, ids) == \E i \in DOMAIN ids : ids[i] = Num(id)

\* UPDATE articles SET archived = flag WHERE id IN ids
UpdateArchivedAll(ids, flag) ==
  [i \in DOMAIN articles |-> [articles[i] EXCEPT !.archived = flag]]

UpdateArchivedToggle(ids, flag) ==
  [i \in DOMAIN articles |->
     IF i \in ids THEN [articles[i] EXCEPT !.archived = ~@] ELSE articles[i]]

UpdateArchived(ids, flag) ==
  [i \in DOMAIN articles |->
     IF i \in ids THEN [articles[i] EXCEPT !.archived = flag] ELSE articles[i]]

\* ... RETURNING *: the updated rows.
Returning(ids, table) == SelectSeq(table, LAMBDA row : row.id \in ids)

\* The handler of PATCH /api/articles/:id/archive.  The request arrives when
\* no response is being sent, or again at once while its own response is
\* (`again`: the client sends the same request twice in a row).
Archive(idParam, body) ==
  LET articleId == parseInt(idParam)
      archived == body.archived
      args == [id |-> idParam, body |-> body]
      again == resp.op = "archive" /\ resp.args = args
      ids == IF isNaN(articleId) THEN {}
             ELSE {i \in DOMAIN articles : i = articleId.nv}
      do == ~isNaN(articleId) /\ archived.t = "bool"
      table == IF do THEN UpdateArchived(ids, archived.bv) ELSE articles
  IN /\ resp = NoResp \/ again
     /\ articles' = table
     /\ resp' =
          IF isNaN(articleId)
          THEN [op |-> "archive", args |-> args, again |-> again, status |-> 400,
                error |-> "Invalid article ID", rows |-> <<>>]
          ELSE IF archived.t # "bool"
          THEN [op |-> "archive", args |-> args, again |-> again, status |-> 400,
                error |-> "Invalid archived status", rows |-> <<>>]
          ELSE IF ids = {}
          THEN [op |-> "archive", args |-> args, again |-> again, status |-> 404,
                error |-> "Article not found", rows |-> <<>>]
          ELSE [op |-> "archive", args |-> args, again |-> again, status |-> 200,
                error |-> "", rows |-> Returning(ids, table)]
     /\ UNCHANGED <<apiKey, now, citations, citationBy, s3, req, listReq, vIn,
                    vOut, limiter, home, form>>

\* The handler of PATCH /api/articles/bulk/archive.
BulkArchive(idParam, body) ==
  LET articleIds == body.articleIds
      archived == body.archived
      args == [id |-> idParam, body |-> body]
      badIds == articleIds.t # "arr" \/ Len(articleIds.av) = 0
      do == ~badIds /\ archived.t = "bool"
      ids == IF badIds THEN {}
             ELSE {i \in DOMAIN articles : inArray(i, articleIds.av)}
      table == IF do THEN UpdateArchived(ids, archived.bv) ELSE articles
  IN /\ resp = NoResp
     /\ articles' = table
     /\ resp' =
          IF badIds
          THEN [op |-> "bulk", args |-> args, status |-> 400,
                error |-> "Invalid article IDs", rows |-> <<>>]
          ELSE IF archived.t # "bool"
          THEN [op |-> "bulk", args |-> args, status |-> 400,
                error |-> "Invalid archived status", rows |-> <<>>]
          ELSE IF Returning(ids, table) = <<>>
          THEN [op |-> "bulk", args |-> args, status |-> 404,
                error |-> "No articles found", rows |-> <<>>]
          ELSE [op |-> "bulk", args |-> args, status |-> 200,
                error |-> "", rows |-> Returning(ids, table)]
     /\ UNCHANGED <<apiKey, now, citations, citationBy, s3, req, listReq, vIn,
                    vOut, limiter, home, form>>

\* The PATCH routes, in the order registerRoutes registers them.
PatchRoutes == << "/api/articles/:id/archive", "/api/articles/bulk/archive" >>

\* Does the route match the path /api/articles/<segment>/archive?  A route
\* parameter matches any non-empty segment.
RouteMatches(route, segment) ==
  IF route = "/api/articles/:id/archive" THEN segment # <<>>
  ELSE segment = BulkSegment

\* Express runs the handler of the first registered route that matches; the
\* handlers here answer and never pass the request on.
FirstRoute(segment) ==
  PatchRoutes[CHOOSE i \in DOMAIN PatchRoutes :
                /\ RouteMatches(PatchRoutes[i], segment)
                /\ \A j \in 1..(i - 1) : ~RouteMatches(PatchRoutes[j], segment)]

\* PATCH /api/articles/<segment>/archive arrives.
PatchArchive(segment, body) ==
  IF FirstRoute(segment) = "/api/articles/:id/archive"
  THEN Archive(segment, body)
  ELSE BulkArchive(segment, body)

\* ---------------------------------------------------- citations and speech

\* GET /api/articles/:id/citations
GetCitations(idParam) ==
  LET articleId == parseInt(idParam)
      args == [id |-> idParam]
  IN /\ resp = NoResp
     /\ resp' =
          IF isNaN(articleId)
          THEN [op |-> "citations", args |-> args, status |-> 400,
                error |-> "Invalid article ID", rows |-> <<>>]
          ELSE [op |-> "citations", args |-> args, status |-> 200,
                error |-> "",
                rows |-> SelectSeq(citations,
                                   LAMBDA c : c.articleId = articleId.nv)]
     /\ UNCHANGED <<apiKey, now, articles, citations, citationBy, s3, req,
                    listReq, vIn, vOut, limiter, home, form>>

\* The bytes audio.speech.create returns for `input`.
Mp3(input) == [t |-> "mp3", speechOf |-> input]

\* SELECT ... FROM articles WHERE id = articleId LIMIT 1
SelectArticleNotArchived(articleId) ==
  SelectSeq(articles, LAMBDA row : row.id = articleId /\ ~row.archived)

SelectArticle(articleId) == SelectSeq(articles, LAMBDA row : row.id = articleId)

\* POST /api/articles/:id/speech.  `calls` counts the calls to
\* audio.speech.create the handler issued.
Speech(idParam, out) ==
  LET articleId == parseInt(idParam)
      args == [id |-> idParam]
      article == IF isNaN(articleId) THEN <<>> ELSE SelectArticle(articleId.nv)
  IN /\ resp = NoResp
     /\ resp' =
          IF isNaN(articleId)
          THEN [op |-> "speech", args |-> args, status |-> 400,
                error |-> "Invalid article ID", calls |-> 0]
          ELSE IF Len(article) = 0
          THEN [op |-> "speech", args |-> args, status |-> 404,
                error |-> "Article not found", calls |-> 0]
          ELSE IF out.kind = "throw"
          THEN [op |-> "speech", args |-> args, status |-> 500,
                error |-> out.msg, calls |-> 1]
          ELSE [op |-> "speech", args |-> args, status |-> 200, error |-> "",
                calls |-> 1, contentType |-> "audio/mpeg",
                buffer |-> Mp3(StripTags(article[1].content))]
     /\ UNCHANGED <<apiKey, now, articles, citations, citationBy, s3, req,
                    listReq, vIn, vOut, limiter, home, form>>

\* ---------------------------------------------------------------- the list

\* parseInt(value as string) || fallback
IntOr(value, fallback) ==
  IF value.t # "str" \/ isNaN(parseInt(value.sv)) \/ parseInt(value.sv).nv = 0
  THEN fallback
  ELSE parseInt(value.sv).nv

\* req.query.showArchived === 'true'
ShowArchived(query) == query.showArchived = Str(TrueString)

Page(query) == IntOr(query.page, 1)

Limit(query) == IntOr(query.limit, 9)

Offset(query) == (Page(query) - 1) * Limit(query)

\* .where(showArchived ? undefined : eq(articles.archived, false)): the ids
\* of the rows the query reads.
Where(showArchived) ==
  {i \in DOMAIN articles : showArchived \/ ~articles[i].archived}

\* ORDER BY created_at DESC: the orders the database may return the rows
\* `ids` in; rows with equal created_at come in any order.  An order starts
\* with a row no other row is newer than and goes on with an order of the
\* other rows.
RECURSIVE OrderByCreatedAtDesc(_)
OrderByCreatedAtDesc(ids) ==
  IF ids = {} THEN {<<>>}
  ELSE UNION { {<<i>> \o rest : rest \in OrderByCreatedAtDesc(ids \ {i})} :
               i \in {i \in ids : \A j \in ids :
                        articles[i].createdAt >= articles[j].createdAt} }

\* LIMIT limit OFFSET offset of the ordered rows.
LimitOffsetNoOffset(order, limit, offset) ==
  [k \in 1..(IF Len(order) < limit THEN Len(order) ELSE limit) |->
     articles[order[k]]]

LimitOffset(order, limit, offset) ==
  LET rest == Len(order) - offset
      n == IF rest < 0 THEN 0 ELSE IF rest < limit THEN rest ELSE limit
  IN [k \in 1..n |-> articles[order[offset + k]]]

\* Math.ceil(count / limit) for a positive limit.
MathCeil(count, limit) ==
  IF count % limit = 0 THEN count \div limit ELSE (count \div limit) + 1

\* GET /api/articles arrives: the query is read and the count query runs.
\* `counted` is history: the ids of the rows the count query matched.
ListCount(query) ==
  /\ resp = NoResp
  /\ listReq = NoList
  /\ listReq' = [pc |-> "counted", query |-> query,
                 counted |-> Where(ShowArchived(query)),
                 count |-> Cardinality(Where(ShowArchived(query)))]
  /\ UNCHANGED <<apiKey, now, articles, citations, citationBy, s3, req, resp,
                 vIn, vOut, limiter, home, form>>

\* The page query runs and the list is sent.  The database rejects a
\* negative LIMIT or OFFSET, and the catch answers 500 with its message.
\* `read` is history: the ids of the rows the page query matched, in the
\* order the database returned them.
ListSelect ==
  /\ resp = NoResp
  /\ listReq.pc = "counted"
  /\ listReq' = NoList
  /\ LET query == listReq.query
         limit == Limit(query)
         offset == Offset(query)
     IN \E order \in OrderByCreatedAtDesc(Where(ShowArchived(query))) :
          resp' =
            IF limit < 0
            THEN [op |-> "list", args |-> query, status |-> 500,
                  error |-> "LIMIT must not be negative"]
            ELSE IF offset < 0
            THEN [op |-> "list", args |-> query, status |-> 500,
                  error |-> "OFFSET must not be negative"]
            ELSE [op |-> "list", args |-> query, status |-> 200, error |-> "",
                  counted |-> listReq.counted, read |-> order,
                  articles |-> LimitOffset(order, limit, offset),
                  pagination |->
                    [total |-> listReq.count, page |-> Page(query),
                     limit |-> limit,
                     totalPages |-> MathCeil(listReq.count, limit)]]
  /\ UNCHANGED <<apiKey, now, articles, citations, citationBy, s3, req, vIn,
                 vOut, limiter, home, form>>

\* ------------------------------------------------------ the specification

NotValidated == [done |-> FALSE]

\* The rate limiter, the page and the form are not part of the run.
NoLimiter == [t |-> "none"]
NoHome == [t |-> "none"]
NoForm == [t |-> "none"]

Init ==
  /\ apiKey \in BOOLEAN
  /\ now = 0
  /\ articles = <<>>
  /\ citations = <<>>
  /\ citationBy = <<>>
  /\ s3 = <<>>
  /\ req = [r \in Reqs |-> IdleReq]
  /\ resp = NoResp
  /\ listReq = NoList
  /\ vIn = Undef
  /\ vOut = NotValidated
  /\ limiter = NoLimiter
  /\ home = NoHome
  /\ form = NoForm

\* The response of the archive / citations / speech / list request has been
\* sent.
Sent ==
  /\ resp # NoResp
  /\ resp' = NoResp
  /\ UNCHANGED <<apiKey, now, articles, citations, citationBy, s3, req,
                 listReq, vIn, vOut, limiter, home, form>>

\* A step of the server with up to NumReqs generate requests, in one instant
\* of the clock.  `resp` shows the response of an archive, citations, speech
\* or list request in the instant it is sent, with the tables as the request
\* left them.
Next ==
  \/ \E r \in Reqs, topic \in Topics : Generate(r, topic)
  \/ \E r \in Reqs, out \in TextOutcomes : TextReturns(r, out)
  \/ \E r \in Reqs, out \in {"throw", "nourl", "url"} : ImageGenReturns(r, out)
  \/ \E r \in Reqs, out \in {"throw", "notok", "ok"} : DownloadReturns(r, out)
  \/ \E r \in Reqs, ok \in BOOLEAN : UploadReturns(r, ok)
  \/ \E r \in Reqs, ok \in BOOLEAN : SignReturns(r, ok)
  \/ \E r \in Reqs, ok \in BOOLEAN : AudioReturns(r, ok)
  \/ \E r \in Reqs, ok \in BOOLEAN : InsertArticleReturns(r, ok)
  \/ \E r \in Reqs, ok \in BOOLEAN : \E i \in req[r].pending :
       CitationInsertReturns(r, i, ok)
  \/ \E idParam \in IdParams, archived \in ArchivedValues :
       PatchArchive(idParam, Body(archived, Undef))
  \/ \E idParam \in IdParams : GetCitations(idParam)
  \/ Sent

Spec == Init /\ [][Next]_vars

\* ------------------------------------------- the generate requests alone

\* An external call of request r settles: the provider, the download, the
\* bucket or the database returns or raises, and the handler resumes.
Settles(r) ==
  \/ \E out \in TextOutcomes : TextReturns(r, out)
  \/ \E out \in {"throw", "nourl", "url"} : ImageGenReturns(r, out)
  \/ \E out \in {"throw", "notok", "ok"} : DownloadReturns(r, out)
  \/ \E ok \in BOOLEAN : UploadReturns(r, ok)
  \/ \E ok \in BOOLEAN : SignReturns(r, ok)
  \/ \E ok \in BOOLEAN : AudioReturns(r, ok)
  \/ \E ok \in BOOLEAN : InsertArticleReturns(r, ok)
  \/ \E ok \in BOOLEAN : \E i \in req[r].pending :
       CitationInsertReturns(r, i, ok)

NextGenerate ==
  \/ \E r \in Reqs, topic \in Topics : Generate(r, topic)
  \/ \E r \in Reqs : Settles(r)

\* Every external call eventually returns or raises: a call the handler
\* awaits does not stay unsettled forever.
EveryCallSettles == \A r \in Reqs : WF_vars(Settles(r))

SpecGenerate == Init /\ [][NextGenerate]_vars /\ EveryCallSettles

\* ------------------------------------------------------------ the catalog

\* The clock advances.
Tick ==
  /\ resp = NoResp
  /\ now < MaxClock
  /\ now' = now + 1
  /\ UNCHANGED <<apiKey, articles, citations, citationBy, s3, req, resp,
                 listReq, vIn, vOut, limiter, home, form>>

\* The generate request of slot r is over (answered, no insert in flight):
\* the slot takes the next generate request.
NextRequest(r) ==
  /\ resp = NoResp
  /\ req[r].pc = "done"
  /\ req[r].pending = {}
  /\ req' = [req EXCEPT ![r] = IdleReq]
  /\ UNCHANGED <<apiKey, now, articles, citations, citationBy, s3, resp,
                 listReq, vIn, vOut, limiter, home, form>>

\* The provider replies of the catalog.
CatalogTextOutcomes ==
  { [kind |-> "throw", msg |-> ""],
    [kind |-> "reply", content |-> Text(ReplyTwoCitations)] }

\* No generate request is being handled.
AtRest == req[1].pc \in {"idle", "done"} /\ req[1].pending = {}

\* A step of the server with one generate request at a time, while the clock
\* advances between the generate requests: the articles table grows to
\* MaxArticles rows.  A list request between its two queries is interleaved
\* with the steps of the generate request.
NextCatalog ==
  \/ Len(articles) < MaxArticles /\ Generate(1, Str(<<"a", "i", "s">>))
  \/ \E out \in CatalogTextOutcomes : TextReturns(1, out)
  \/ \E out \in {"throw", "url"} : ImageGenReturns(1, out)
  \/ \E out \in {"notok", "ok"} : DownloadReturns(1, out)
  \/ \E ok \in BOOLEAN : UploadReturns(1, ok)
  \/ SignReturns(1, TRUE)
  \/ \E ok \in BOOLEAN : AudioReturns(1, ok)
  \/ \E ok \in BOOLEAN : InsertArticleReturns(1, ok)
  \/ \E i \in req[1].pending : CitationInsertReturns(1, i, TRUE)
  \/ NextRequest(1)
  \/ AtRest /\ Tick
  \/ listReq = NoList /\ \E idParam \in IdParams, archived \in ArchivedValues :
       PatchArchive(idParam, Body(archived, Undef))
  \/ listReq = NoList /\ \E ids \in ArticleIdLists, archived \in ArchivedValues :
       PatchArchive(BulkSegment, Body(archived, ids))
  \/ listReq = NoList /\ \E idParam \in IdParams : GetCitations(idParam)
  \/ listReq = NoList /\ \E idParam \in IdParams, out \in SpeechOutcomes :
       Speech(idParam, out)
  \/ \E query \in Queries : ListCount(query)
  \/ ListSelect
  \/ Sent

InitCatalog == Init /\ apiKey

SpecCatalog == InitCatalog /\ [][NextCatalog]_vars

\* ------------------------------------- the Response Validator on its own

Absent == [t |-> "absent"]

\* The JSON object with the given members; an Absent member is left out.
MkObject(members) ==
  Obj([k \in {k \in DOMAIN members : members[k] # Absent} |-> members[k]])

CitationInputs ==
  { MkObject([source |-> s, author |-> a, year |-> y]) :
      s \in {Absent, Str(<<"A">>), Num(1)},
      a \in {Absent, Str(<<"X">>)},
      y \in {Absent, Num(2020)} }
    \cup { Str(<<"A">>), Null }

CitationListInputs ==
  { Absent, Null, Str(<<"A">>), Obj(<<>>), Arr(<<>>) }
    \cup { Arr(<<c>>) : c \in CitationInputs }
    \cup { Arr(<<CitationA, c>>) : c \in CitationInputs }

ValidatorInputs ==
  { Undef, Null, Num(1), Str(<<"A">>), Bool(TRUE), Arr(<<>>),
    Arr(<<ReplyNoCitations>>) }
    \cup { MkObject([title |-> t, content |-> c, summary |-> s,
                     citations |-> l, note |-> x]) :
             t \in {Absent, Str(<<"T">>), Num(1)},
             c \in {Absent, Str(<<"c">>), Null},
             s \in {Absent, Str(<<>>), Str(<<"s">>)},
             l \in CitationListInputs,
             x \in {Absent, Str(<<"n">>)} }

InitValidator ==
  /\ vIn \in ValidatorInputs
  /\ vOut = NotValidated
  /\ apiKey = TRUE
  /\ now = 0
  /\ articles = <<>>
  /\ citations = <<>>
  /\ citationBy = <<>>
  /\ s3 = <<>>
  /\ req = [r \in Reqs |-> IdleReq]
  /\ resp = NoResp
  /\ listReq = NoList
  /\ limiter = NoLimiter
  /\ home = NoHome
  /\ form = NoForm

\* validateArticleResponse(vIn) is called.
Validate ==
  /\ ~vOut.done
  /\ vOut' = [done |-> TRUE, result |-> validateArticleResponse(vIn)]
  /\ UNCHANGED <<apiKey, now, articles, citations, citationBy, s3, req, resp,
                 listReq, vIn, limiter, home, form>>

NextValidator == Validate

SpecValidator == InitValidator /\ [][NextValidator]_vars

\* ---------------------------------------------------------------- HomePage
\* The user acts on a page that has settled: no fetch of the page is in
\* flight and useSWR has fetched the current key.

articlesPerPage == 9

DigitChar == <<"0", "1", "2", "3", "4", "5", "6", "7", "8", "9">>

\* `${n}` for a number n >= 0.
RECURSIVE NumberToString(_)
NumberToString(n) ==
  IF n < 10 THEN <<DigitChar[n + 1]>>
  ELSE NumberToString(n \div 10) \o <<DigitChar[(n % 10) + 1]>>

\* `${b}` for a boolean.
BooleanToString(b) ==
  IF b THEN TrueString ELSE <<"f", "a", "l", "s", "e">>

\* The SWR key `/api/articles?showArchived=..&page=..&limit=..`, and the
\* req.query the server reads from that URL.
SWRKey(showArchived, page) == <<showArchived, page>>

QueryOf(showArchived, page) ==
  [showArchived |-> Str(BooleanToString(showArchived)),
   page |-> Str(NumberToString(page)),
   limit |-> Str(NumberToString(articlesPerPage))]

\* `data` of a key the cache does not hold.
NoData == [t |-> "undef"]
NoFetch == [who |-> "none"]
\* History: no Load More has succeeded since the list was last reset.
NoMerge == [page |-> 0]

\* The SWR cache entry of a key.
CacheGet(cache, key) == IF key \in DOMAIN cache THEN cache[key] ELSE NoData

\* useSWR(key).data
Data(h) == CacheGet(h.cache, SWRKey(h.showArchived, h.page))

\* const articles = data?.articles || []
Articles(h) == IF Data(h) = NoData THEN <<>> ELSE Data(h).articles

\* prev.includes(articleId)
includes(list, x) == \E i \in DOMAIN list : list[i] = x

\* [...new Set(list)]: the first occurrence of each element, in order.
RECURSIVE NewSet(_)
NewSet(list) ==
  IF list = <<>> THEN <<>>
  ELSE LET front == NewSet(SubSeq(list, 1, Len(list) - 1))
       IN IF includes(front, list[Len(list)]) THEN front
          ELSE Append(front, list[Len(list)])

\* The body of a list response, as res.json() returns it.
ResponseData(response) ==
  [articles |-> response.articles, pagination |-> response.pagination]

\* The page is mounted: nothing is cached and useSWR is about to fetch.
MountedHome ==
  [showArchived |-> FALSE, page |-> 1, selectedArticles |-> <<>>,
   cache |-> <<>>, stale |-> TRUE, fetch |-> NoFetch, merged |-> NoMerge,
   articleIds |-> <<>>]

\* useSWR fetches the current key (on mount, on a change of key, after
\* mutate(key)).
SWRFetch ==
  /\ home # NoHome
  /\ home.stale
  /\ home.fetch = NoFetch
  /\ home' = [home EXCEPT
       !.stale = FALSE,
       !.fetch = [who |-> "swr", key |-> SWRKey(home.showArchived, home.page),
                  query |-> QueryOf(home.showArchived, home.page)]]
  /\ UNCHANGED <<apiKey, now, articles, citations, citationBy, s3, req, resp,
                 listReq, vIn, vOut, limiter, form>>

\* The fetch of useSWR settles: the response is cached under its key; after
\* an error the key keeps what it had.
SWRFetchReturns ==
  /\ home # NoHome
  /\ home.fetch.who = "swr"
  /\ resp.op = "list"
  /\ home' = [home EXCEPT
       !.fetch = NoFetch,
       !.cache = IF resp.status = 200
                 THEN (home.fetch.key :> ResponseData(resp)) @@ @
                 ELSE @]
  /\ resp' = NoResp
  /\ UNCHANGED <<apiKey, now, articles, citations, citationBy, s3, req,
                 listReq, vIn, vOut, limiter, form>>

handleToggleArchived ==
  /\ home # NoHome
  /\ home.fetch = NoFetch /\ ~home.stale
  /\ home' = [home EXCEPT
       !.showArchived = ~@, !.selectedArticles = <<>>, !.page = 1,
       !.stale = TRUE, !.merged = NoMerge]
  /\ UNCHANGED <<apiKey, now, articles, citations, citationBy, s3, req, resp,
                 listReq, vIn, vOut, limiter, form>>

handleSelectArticle(articleId, selected) ==
  /\ home # NoHome
  /\ home.fetch = NoFetch /\ ~home.stale
  /\ home' = [home EXCEPT !.selectedArticles =
       IF selected /\ ~includes(@, articleId) THEN Append(@, articleId)
       ELSE SelectSeq(@, LAMBDA id : id # articleId)]
  /\ UNCHANGED <<apiKey, now, articles, citations, citationBy, s3, req, resp,
                 listReq, vIn, vOut, limiter, form>>

handleSelectAll(checked) ==
  /\ home # NoHome
  /\ home.fetch = NoFetch /\ ~home.stale
  /\ Data(home) # NoData
  /\ home' = [home EXCEPT !.selectedArticles =
       IF checked
       THEN NewSet([i \in DOMAIN Data(home).articles |->
                      Data(home).articles[i].id])
       ELSE <<>>]
  /\ UNCHANGED <<apiKey, now, articles, citations, citationBy, s3, req, resp,
                 listReq, vIn, vOut, limiter, form>>

\* handleLoadMore up to its fetch: the callback holds the data, page and
\* showArchived of the render it was created in.
handleLoadMore ==
  /\ home # NoHome
  /\ home.fetch = NoFetch /\ ~home.stale
  /\ Data(home) # NoData
  /\ home.page < Data(home).pagination.totalPages
  /\ home' = [home EXCEPT !.fetch =
       [who |-> "loadMore", data |-> Data(home), page |-> home.page,
        showArchived |-> home.showArchived,
        query |-> QueryOf(home.showArchived, home.page + 1)]]
  /\ UNCHANGED <<apiKey, now, articles, citations, citationBy, s3, req, resp,
                 listReq, vIn, vOut, limiter, form>>

\* handleLoadMore after its fetch: mutate(key of `page`, merged, false), then
\* setPage(nextPage); a response that is not ok only raises a toast.
\* `merged` is history: the list shown when Load More was pressed and the
\* articles of the page it fetched.
LoadMoreReturns ==
  /\ home # NoHome
  /\ home.fetch.who = "loadMore"
  /\ resp.op = "list"
  /\ LET f == home.fetch IN
       home' =
         IF resp.status # 200 THEN [home EXCEPT !.fetch = NoFetch]
         ELSE [home EXCEPT
                 !.fetch = NoFetch,
                 !.cache = (SWRKey(f.showArchived, f.page) :>
                              [articles |-> f.data.articles \o resp.articles,
                               pagination |-> resp.pagination]) @@ @,
                 !.page = f.page + 1,
                 !.stale = TRUE,
                 !.merged = [page |-> f.page + 1, before |-> f.data.articles,
                             added |-> resp.articles]]
  /\ resp' = NoResp
  /\ UNCHANGED <<apiKey, now, articles, citations, citationBy, s3, req,
                 listReq, vIn, vOut, limiter, form>>

\* handleBulkArchive up to its fetch.  `articleIds` is history: the ids of
\* the last request sent.
handleBulkArchive(archive) ==
  LET uniqueArticleIds == NewSet(home.selectedArticles) IN
    /\ home # NoHome
    /\ home.fetch = NoFetch /\ ~home.stale
    /\ uniqueArticleIds # <<>>
    /\ home' = [home EXCEPT
         !.articleIds = uniqueArticleIds,
         !.fetch = [who |-> "bulk",
                    body |-> Body(Bool(archive),
                                  Arr([i \in DOMAIN uniqueArticleIds |->
                                         Num(uniqueArticleIds[i])]))]]
    /\ UNCHANGED <<apiKey, now, articles, citations, citationBy, s3, req, resp,
                   listReq, vIn, vOut, limiter, form>>

\* handleBulkArchive after its fetch: a response that is not ok raises a
\* toast; otherwise mutate(key) revalidates and the selection is cleared.
BulkArchiveReturns ==
  /\ home # NoHome
  /\ home.fetch.who = "bulk"
  /\ resp.op \in {"archive", "bulk"}
  /\ home' =
       IF resp.status # 200 THEN [home EXCEPT !.fetch = NoFetch]
       ELSE [home EXCEPT !.fetch = NoFetch, !.stale = TRUE,
                         !.selectedArticles = <<>>]
  /\ resp' = NoResp
  /\ UNCHANGED <<apiKey, now, articles, citations, citationBy, s3, req,
                 listReq, vIn, vOut, limiter, form>>

\* The server receives the list request the page has sent.
ServeList ==
  /\ home # NoHome
  /\ home.fetch.who \in {"swr", "loadMore"}
  /\ ListCount(home.fetch.query)

\* The server receives the PATCH /api/articles/bulk/archive the page has sent.
ServeBulkArchive ==
  /\ home # NoHome
  /\ home.fetch.who = "bulk"
  /\ resp = NoResp
  /\ PatchArchive(BulkSegment, home.fetch.body)

\* The ids of the articles whose boxes the user ticks.
Ticked ==
  {Articles(home)[i].id : i \in {i \in DOMAIN Articles(home) : i <= MaxTicked}}

NextHomePage ==
  \/ SWRFetch
  \/ SWRFetchReturns
  \/ handleToggleArchived
  \/ \E articleId \in Ticked, selected \in BOOLEAN :
       handleSelectArticle(articleId, selected)
  \/ \E checked \in BOOLEAN : handleSelectAll(checked)
  \/ handleLoadMore
  \/ LoadMoreReturns
  \/ \E archive \in BOOLEAN : handleBulkArchive(archive)
  \/ BulkArchiveReturns
  \/ ServeList
  \/ ListSelect
  \/ ServeBulkArchive

\* The request that generated article i of the catalog, at time i.
CatalogRequest(i) ==
  LET draft == validateArticleResponse(ReplyNoCitations) IN
    [IdleReq EXCEPT
       !.draft = draft,
       !.fileName = FileName(i, draft.title),
       !.imageUrl = SignedUrl(FileName(i, draft.title)),
       !.audioUrl = DataUrl(StripTags(draft.content)),
       !.createdAt = i]

\* The page is opened on a catalog of CatalogSize articles, generated one
\* after the other.
InitHomePage ==
  /\ apiKey = TRUE
  /\ now = CatalogSize
  /\ articles = [i \in 1..CatalogSize |-> ArticleRow(i, CatalogRequest(i), i)]
  /\ citations = <<>>
  /\ citationBy = <<>>
  /\ s3 = <<>>
  /\ req = [r \in Reqs |-> IdleReq]
  /\ resp = NoResp
  /\ listReq = NoList
  /\ vIn = Undef
  /\ vOut = NotValidated
  /\ limiter = NoLimiter
  /\ home = MountedHome
  /\ form = NoForm

SpecHomePage == InitHomePage /\ [][NextHomePage]_vars

\* ------------------------------------------------------------ ResearchForm

MAX_RETRIES == 3

\* event.error of the recognition's error event.
SpeechErrors == {"network", "no-speech"}

\* The form is mounted.  `recognition` is the state of recognitionRef.current
\* as the browser sees it; `closure` is the retryCount of the render whose
\* startRecognition set the handlers of the running recognition; `timer` is
\* the pending setTimeout of onerror.  History, since the user last pressed
\* the microphone: `attempts` are the attempt numbers the toasts showed,
\* `restarts` counts the automatic restarts, `reported` tells that the error
\* toast was shown.
MountedForm ==
  [retryCount |-> 0, isListening |-> FALSE, recognition |-> "none",
   closure |-> 0, timer |-> FALSE, attempts |-> <<>>, restarts |-> 0,
   reported |-> FALSE]

\* startRecognition(): a recognition is created, its handlers are set and it
\* is started.
startRecognition(f) == [f EXCEPT !.recognition = "starting"]

\* The user presses the microphone button: toggleSpeechRecognition.  The
\* startRecognition it calls is the one of the current render.
toggleSpeechRecognition ==
  /\ form # NoForm
  /\ ~form.timer
  /\ form.isListening \/ form.recognition = "none"
  /\ form' =
       IF form.isListening /\ form.recognition # "none"
       THEN [form EXCEPT !.recognition = "none", !.isListening = FALSE,
                         !.retryCount = 0]
       ELSE startRecognition([form EXCEPT !.closure = form.retryCount,
                                          !.attempts = <<>>, !.restarts = 0,
                                          !.reported = FALSE])
  /\ UNCHANGED <<apiKey, now, articles, citations, citationBy, s3, req, resp,
                 listReq, vIn, vOut, limiter, home>>

\* recognition.onstart
onstart ==
  /\ form # NoForm
  /\ form.recognition = "starting"
  /\ form' = [form EXCEPT !.recognition = "listening", !.isListening = TRUE]
  /\ UNCHANGED <<apiKey, now, articles, citations, citationBy, s3, req, resp,
                 listReq, vIn, vOut, limiter, home>>

\* recognition.onresult
onresult ==
  /\ form # NoForm
  /\ form.recognition = "listening"
  /\ form' = [form EXCEPT !.recognition = "none", !.isListening = FALSE,
                          !.retryCount = 0]
  /\ UNCHANGED <<apiKey, now, articles, citations, citationBy, s3, req, resp,
                 listReq, vIn, vOut, limiter, home>>

\* recognition.onerror: its retryCount is the one of its closure.
onerror(error) ==
  /\ form # NoForm
  /\ form.recognition \in {"starting", "listening"}
  /\ error = "network" => form.restarts <= MaxRestarts
  /\ form' =
       IF error = "network" /\ form.closure < MAX_RETRIES
       THEN [form EXCEPT !.recognition = "none", !.isListening = FALSE,
                         !.attempts = Append(@, form.closure + 1),
                         !.timer = TRUE]
       ELSE [form EXCEPT !.recognition = "none", !.isListening = FALSE,
                         !.retryCount = 0, !.reported = TRUE]
  /\ UNCHANGED <<apiKey, now, articles, citations, citationBy, s3, req, resp,
                 listReq, vIn, vOut, limiter, home>>

\* recognition.onend, after no result and no error.
onend ==
  /\ form # NoForm
  /\ form.recognition = "listening"
  /\ form' = [form EXCEPT !.recognition = "none", !.isListening = FALSE]
  /\ UNCHANGED <<apiKey, now, articles, citations, citationBy, s3, req, resp,
                 listReq, vIn, vOut, limiter, home>>

\* The timer of onerror fires after RETRY_DELAY: setRetryCount(prev => prev +
\* 1) and startRecognition(), the function of the closure.
RetryTimerFires ==
  /\ form # NoForm
  /\ form.timer
  /\ form' = startRecognition([form EXCEPT !.timer = FALSE,
                                           !.retryCount = @ + 1,
                                           !.restarts = @ + 1])
  /\ UNCHANGED <<apiKey, now, articles, citations, citationBy, s3, req, resp,
                 listReq, vIn, vOut, limiter, home>>

NextResearchForm ==
  \/ toggleSpeechRecognition
  \/ onstart
  \/ onresult
  \/ \E error \in SpeechErrors : onerror(error)
  \/ onend
  \/ RetryTimerFires

InitResearchForm ==
  /\ apiKey = TRUE
  /\ now = 0
  /\ articles = <<>>
  /\ citations = <<>>
  /\ citationBy = <<>>
  /\ s3 = <<>>
  /\ req = [r \in Reqs |-> IdleReq]
  /\ resp = NoResp
  /\ listReq = NoList
  /\ vIn = Undef
  /\ vOut = NotValidated
  /\ limiter = NoLimiter
  /\ home = NoHome
  /\ form = MountedForm

SpecResearchForm == InitResearchForm /\ [][NextResearchForm]_vars

\* ------------------------------------------------------- the rate limiter

\* The clients of the API: req.isAuthenticated(), req.user.id, req.ip.
\* A client that is not authenticated has no user: user 0.
Clients ==
  { [auth |-> TRUE, user |-> 1, ip |-> "10.0.0.1"],
    [auth |-> FALSE, user |-> 0, ip |-> "10.0.0.1"],
    [auth |-> FALSE, user |-> 0, ip |-> "10.0.0.2"] }

\* openaiLimiter.keyGenerator
keyGenerator(client) ==
  IF client.auth THEN <<"user", client.user, "">> ELSE <<"ip", 0, client.ip>>

\* openaiLimiter.max
openaiLimiterMax(client) == IF client.auth THEN 20 ELSE 5

\* The keys the store can hold.
LimiterKeys == {keyGenerator(client) : client \in Clients}

NoRequest == [status |-> 0]

\* The limiter with an empty store.  `sent` is history: the requests each
\* client has sent in the current window.
EmptyLimiter ==
  [hits |-> [k \in LimiterKeys |-> 0], sent |-> [c \in Clients |-> 0],
   last |-> NoRequest]

\* A request of the client reaches openaiLimiter: the store counts the hit
\* for the client's key, and the request is passed on unless the count
\* exceeds the client's limit, in which case it is answered 429.
LimitedRequest(client) ==
  LET key == keyGenerator(client)
      totalHits == limiter.hits[key] + 1
  IN /\ limiter # NoLimiter
     /\ limiter.hits[key] < openaiLimiterMax(client) + MaxExcess
     /\ limiter' =
          [hits |-> [limiter.hits EXCEPT ![key] = totalHits],
           sent |-> [limiter.sent EXCEPT ![client] = @ + 1],
           last |-> [client |-> client, totalHits |-> totalHits,
                     status |-> IF totalHits > openaiLimiterMax(client)
                                THEN 429 ELSE 200]]
     /\ UNCHANGED <<apiKey, now, articles, citations, citationBy, s3, req, resp,
                    listReq, vIn, vOut, home, form>>

\* windowMs (one hour) has passed: the store forgets every hit.
WindowExpires ==
  /\ limiter # NoLimiter
  /\ limiter.last # NoRequest
  /\ limiter' = EmptyLimiter
  /\ UNCHANGED <<apiKey, now, articles, citations, citationBy, s3, req, resp,
                 listReq, vIn, vOut, home, form>>

NextLimiter ==
  \/ \E client \in Clients : LimitedRequest(client)
  \/ WindowExpires

InitLimiter ==
  /\ apiKey = TRUE
  /\ now = 0
  /\ articles = <<>>
  /\ citations = <<>>
  /\ citationBy = <<>>
  /\ s3 = <<>>
  /\ req = [r \in Reqs |-> IdleReq]
  /\ resp = NoResp
  /\ listReq = NoList
  /\ vIn = Undef
  /\ vOut = NotValidated
  /\ limiter = EmptyLimiter
  /\ home = NoHome
  /\ form = NoForm

SpecLimiter == InitLimiter /\ [][NextLimiter]_vars

\* ------------------------------------------------- what the claims read

Range(f) == {f[i] : i \in DOMAIN f}

IsPrefix(s, t) == Len(s) <= Len(t) /\ \A i \in DOMAIN s : s[i] = t[i]

Last(s) == s[Len(s)]

\* The citation rows the inserts of request r stored.
CitationsBy(r) == {i \in DOMAIN citations : citationBy[i] = r}

\* The objects in the bucket that request r wrote.
ObjectsBy(r) == {k \in DOMAIN s3 : s3[k] = r}

\* Request r has written nothing: no article row, no citation row, no object.
NoWrites(r) ==
  /\ req[r].article = NoArticle
  /\ CitationsBy(r) = {}
  /\ ObjectsBy(r) = {}

\* ----------------------------------------------------------------- claims

\* C1: a generate request whose topic is missing, not a string or the empty
\* string is answered 400, has issued no provider call (its log of started
\* stages is empty) and has written no object, article row or citation row.
C1_InvalidTopicRejected ==
  \A r \in Reqs :
    LET q == req[r] IN
      (q.pc # "idle" /\ q.topic # Dead /\
         (q.topic.t # "str" \/ q.topic.sv = <<>>))
        => /\ q.pc = "done"
           /\ q.status = 400
           /\ q.log = <<>>
           /\ NoWrites(r)

C1_Witness ==
  \E r \in Reqs :
    /\ req[r].pc = "done" /\ req[r].status = 400
    /\ req[r].topic = Str(<<>>)
    /\ \E r2 \in Reqs : req[r2].pc = "done" /\ req[r2].status = 200

ImageStages == {"imageGen", "download", "upload", "sign"}

\* C2: a failure of the image stage or of the audio stage does not abort the
\* request: the Article is persisted and returned (200) with only the failed
\* field absent.
C2_MediaFailureIsRecoverable ==
  \A r \in Reqs :
    LET q == req[r] IN
      (q.pc = "done" /\ q.failedAt \in ImageStages \cup {"audio"})
        => /\ q.status = 200
           /\ q.article.id \in DOMAIN articles
           /\ (q.failedAt \in ImageStages => q.article.imageUrl = Null)
           /\ (q.failedAt = "audio" => q.article.audioUrl = Null)

\* C3: every Article a generate request persists or returns has a non-empty
\* title, content and summary.
C3_RequiredFieldsNonEmpty ==
  /\ \A i \in DOMAIN articles :
       /\ articles[i].title # <<>>
       /\ articles[i].content # <<>>
       /\ articles[i].summary # <<>>
  /\ \A r \in Reqs :
       req[r].status = 200 =>
         /\ req[r].article.title # <<>>
         /\ req[r].article.content # <<>>
         /\ req[r].article.summary # <<>>

\* The completion the request received passes the content check, JSON.parse
\* and the schema.
Accepted(q) ==
  /\ q.content.t = "text"
  /\ ~q.content.empty
  /\ q.content.json.ok
  /\ articleResponseSchema(q.content.json.val)

\* C4: the article insert of a request is issued only after validation, for a
\* reply the schema accepts; a request whose reply is empty, unparseable or
\* rejected by the schema is answered 500 and has written no article row, no
\* citation row and no image object.
C4_ValidatorIsHardBoundary ==
  \A r \in Reqs :
    LET q == req[r] IN
      /\ ("insertArticle" \in Range(q.log) \/ q.article # NoArticle)
           => /\ Accepted(q)
              /\ q.draft = validateArticleResponse(q.content.json.val)
              /\ \E i, j \in DOMAIN q.log :
                   i < j /\ q.log[i] = "validate" /\ q.log[j] = "insertArticle"
      /\ (q.content # NoContent /\ ~Accepted(q))
           => /\ q.pc = "done"
              /\ q.status = 500
              /\ NoWrites(r)

C4_Witness ==
  \E r, r2 \in Reqs :
    /\ req[r].content = Text(ReplyMissingSummary)
    /\ req[r].pc = "done"
    /\ req[r2].article # NoArticle

\* The members of a JSON object that the schema requires to be strings.
RequiredStrings == {"title", "content", "summary"}

\* Every citation of the list is an object with a string source, and each of
\* author, year, url, quote is left out or of its type.
WellFormedCitations(list) ==
  \A i \in DOMAIN list :
    /\ list[i].t = "obj"
    /\ Field(list[i].ov, "source").t = "str"
    /\ Field(list[i].ov, "author").t \in {"undef", "str"}
    /\ Field(list[i].ov, "year").t \in {"undef", "num"}
    /\ Field(list[i].ov, "url").t \in {"undef", "str"}
    /\ Field(list[i].ov, "quote").t \in {"undef", "str"}

\* C5: validateArticleResponse rejects a non-object, an object lacking a
\* string title, content or summary, one whose citations is not a list, and
\* one with a citation that has no string source; it accepts the others
\* (citations without the optional members, an empty citations list); an
\* accepted result has exactly the members title, content, summary and
\* citations, and its citations is a list as long as the input's.
C5_ValidatorContract ==
  vOut.done =>
    LET res == vOut.result IN
      /\ vIn.t # "obj" => ~res.ok
      /\ vIn.t = "obj" =>
           LET o == vIn.ov
               list == Field(o, "citations")
           IN /\ (\E k \in RequiredStrings : Field(o, k).t # "str") => ~res.ok
              /\ list.t # "arr" => ~res.ok
              /\ (list.t = "arr" /\
                    \E i \in DOMAIN list.av :
                      \/ list.av[i].t # "obj"
                      \/ Field(list.av[i].ov, "source").t # "str") => ~res.ok
              /\ ((\A k \in RequiredStrings : Field(o, k).t = "str") /\
                    list.t = "arr" /\ WellFormedCitations(list.av))
                   => /\ res.ok
                      /\ DOMAIN res = {"ok", "title", "content", "summary", "citations"}
                      /\ res.title = o.title.sv
                      /\ res.content = o.content.sv
                      /\ res.summary = o.summary.sv
                      /\ DOMAIN res.citations = 1..Len(list.av)
                      /\ \A i \in DOMAIN list.av :
                           /\ res.citations[i].source = list.av[i].ov.source
                           /\ res.citations[i].year = Field(list.av[i].ov, "year")

C5_Witness ==
  /\ vOut.done
  /\ vOut.result.ok
  /\ "note" \in DOMAIN vIn.ov
  /\ Len(vIn.ov.citations.av) = 2
  /\ DOMAIN vIn.ov.citations.av[2].ov = {"source"}

\* C6: the stages of a request are started in the order text, validate,
\* imageGen, download, upload, sign, audio, insertArticle, insertCitations;
\* the call a request awaits is the one it started last; and once a stage
\* has failed, it stays the last stage the request started.
C6_StagesInOrder ==
  \A r \in Reqs :
    LET q == req[r] IN
      /\ IsPrefix(q.log, StageOrder)
      /\ q.pc \notin {"idle", "done"} => (q.log # <<>> /\ Last(q.log) = q.pc)
      /\ q.pending # {} => (q.log # <<>> /\ Last(q.log) = "insertCitations")
      /\ q.failedAt # "none" =>
           (q.pc = "done" /\ q.log # <<>> /\ Last(q.log) = q.failedAt)

C6_Witness ==
  \E r, r2 \in Reqs :
    /\ req[r].log = StageOrder
    /\ req[r].status = 200
    /\ req[r2].failedAt = "download"

\* C7, as claimed: when the article insert succeeded and a citation insert
\* fails, the Article row stays and the request is answered 200.
C7_CitationFailureStillSuccess ==
  \A r \in Reqs :
    LET q == req[r] IN
      (q.pc = "done" /\ q.failedAt = "insertCitations")
        => /\ q.article.id \in DOMAIN articles
           /\ q.status = 200

\* C7, amended: when the article insert succeeded and a citation insert
\* fails, the Article row stays in the table, with the citations of the
\* request whose inserts succeeded, and the request is answered 500 with
\* 'Failed to save article to database'.
C7_CitationFailureKeepsArticle ==
  \A r \in Reqs :
    LET q == req[r] IN
      q.failedAt = "insertCitations"
        => /\ q.article.id \in DOMAIN articles
           /\ articles[q.article.id].title = q.draft.title
           /\ articles[q.article.id].content = q.draft.content
           /\ articles[q.article.id].summary = q.draft.summary
           /\ \A i \in CitationsBy(r) : citations[i].articleId = q.article.id
           /\ Cardinality(CitationsBy(r)) + Cardinality(q.pending)
                < Len(q.draft.citations)
           /\ q.pc = "done"
           /\ q.status = 500
           /\ q.error = "Failed to save article to database"

C7_Witness ==
  \E r \in Reqs :
    /\ req[r].failedAt = "insertCitations"
    /\ req[r].pending = {}
    /\ Cardinality(CitationsBy(r)) = 1

\* Citation row `row` stores entry `c` of a validated draft for article `id`:
\* the members that were left out are NULL.
Preserves(row, c, id) ==
  /\ row.articleId = id
  /\ Str(row.source) = c.source
  /\ row.year = (IF c.year.t = "undef" THEN Null ELSE c.year)
  /\ row.author = (IF c.author.t = "undef" THEN Null ELSE c.author)
  /\ row.url = (IF c.url.t = "undef" THEN Null ELSE c.url)
  /\ row.quote = (IF c.quote.t = "undef" THEN Null ELSE c.quote)

\* C8: when GET /api/articles/:id/citations is answered for the id of an
\* article that a generate request returned with 200, the answer is 200 and
\* lists exactly one citation per entry of that request's validated draft,
\* each preserving the entry's members and carrying the article's id; for a
\* draft without citations the list is empty.
C8_CitationRoundTrip ==
  \A r \in Reqs :
    LET q == req[r] IN
      (resp.op = "citations" /\ q.status = 200 /\
         parseInt(resp.args.id) = Num(q.article.id))
        => /\ resp.status = 200
           /\ Len(resp.rows) = Len(q.draft.citations)
           /\ \E f \in [DOMAIN q.draft.citations -> DOMAIN resp.rows] :
                /\ \A i, j \in DOMAIN f : f[i] = f[j] => i = j
                /\ \A i \in DOMAIN f :
                     Preserves(resp.rows[f[i]], q.draft.citations[i], q.article.id)

C8_Witness ==
  \E r, r2 \in Reqs :
    /\ resp.op = "citations"
    /\ req[r].status = 200
    /\ parseInt(resp.args.id) = Num(req[r].article.id)
    /\ Len(resp.rows) = 2
    /\ resp.rows[2].year = Num(2020)
    /\ req[r2].status = 200
    /\ req[r2].draft.citations = <<>>

\* C9: every citation row references an article row that exists (ids are
\* unique: row i has id i), namely the article that the request which
\* inserted the citation created; no two requests created the same article.
C9_CitationsOwnedByOneArticle ==
  /\ \A i \in DOMAIN articles : articles[i].id = i
  /\ \A i \in DOMAIN citations :
       /\ citations[i].articleId \in DOMAIN articles
       /\ citations[i].articleId = req[citationBy[i]].article.id
  /\ \A r, r2 \in Reqs :
       (r # r2 /\ req[r].article # NoArticle /\ req[r2].article # NoArticle)
         => req[r].article.id # req[r2].article.id

C9_Witness ==
  \E r, r2 \in Reqs :
    /\ r # r2
    /\ CitationsBy(r) # {}
    /\ CitationsBy(r2) # {}
    /\ req[r].pending # {}
    /\ \E i \in DOMAIN articles : articles[i].archived

\* The ids a bulk request names.
RequestedIds(list) == {list[i].nv : i \in DOMAIN list}

\* The response being sent answers a PATCH /api/articles/<segment>/archive.
IsPatch == resp # NoResp /\ resp.op \in {"archive", "bulk"}

\* C10: a bulk archive request (PATCH /api/articles/bulk/archive) with a
\* non-empty id list and a boolean archived leaves every article whose id is
\* in the list with that flag, is answered 404 exactly when no id of the list
\* is an article's, and otherwise 200 with exactly the articles that matched,
\* once each, as they now are in the table.
C10_BulkArchive ==
  (IsPatch /\ resp.args.id = BulkSegment /\
     resp.args.body.articleIds.t = "arr" /\
     resp.args.body.articleIds.av # <<>> /\ resp.args.body.archived.t = "bool")
    => LET matched ==
             RequestedIds(resp.args.body.articleIds.av) \cap DOMAIN articles
       IN /\ \A i \in matched : articles[i].archived = resp.args.body.archived.bv
          /\ (resp.status = 404) = (matched = {})
          /\ matched # {} =>
               /\ resp.status = 200
               /\ Len(resp.rows) = Cardinality(matched)
               /\ {resp.rows[j].id : j \in DOMAIN resp.rows} = matched
               /\ \A j \in DOMAIN resp.rows :
                    resp.rows[j] = articles[resp.rows[j].id]

\* C11: when PATCH /api/articles/:id/archive is sent twice in a row with the
\* same archived value and the first is answered 200 (the article exists),
\* the second is answered 200 with the same article, carrying that archived
\* value, and leaves the tables as the first left them.
C11_ArchiveIdempotent ==
  [][(resp'.op = "archive" /\ resp'.again /\ resp.status = 200)
       => /\ resp'.status = 200
          /\ Len(resp'.rows) = 1
          /\ resp'.rows = resp.rows
          /\ resp'.rows[1].archived = resp.args.body.archived.bv
          /\ articles' = articles
          /\ citations' = citations]_vars

C11_Witness ==
  /\ resp.op = "archive"
  /\ resp.again
  /\ resp.status = 200
  /\ resp.args.body.archived = Bool(TRUE)
  /\ Len(articles) = 2
  /\ resp.rows[1].id = 2

\* The path segment is a decimal integer.
IsInteger(segment) ==
  /\ segment # <<>>
  /\ \A i \in DOMAIN segment : segment[i] \in DigitChars

\* The integer a decimal path segment denotes.
RECURSIVE IntegerOf(_)
IntegerOf(segment) ==
  IF segment = <<>> THEN 0
  ELSE 10 * IntegerOf(SubSeq(segment, 1, Len(segment) - 1))
         + DigitVal[segment[Len(segment)]]

\* C12: PATCH /api/articles/:id/archive is answered 400 when the id is not an
\* integer or archived is not a boolean, 404 when no article has the id, and
\* otherwise 200 with the updated article; PATCH /api/articles/bulk/archive
\* is answered 400 when articleIds is not an array, is empty, or archived is
\* not a boolean; a request answered 400 or 404 leaves the archived flag of
\* every article as it was.
C12_ArchiveStatusCodes ==
  [][(resp'.op \in {"archive", "bulk"} /\ resp' # resp)
       => LET id == resp'.args.id
              body == resp'.args.body
          IN /\ id # BulkSegment =>
                  IF ~IsInteger(id) \/ body.archived.t # "bool"
                  THEN resp'.status = 400
                  ELSE IF IntegerOf(id) \notin DOMAIN articles
                  THEN resp'.status = 404
                  ELSE /\ resp'.status = 200
                       /\ resp'.rows = <<articles'[IntegerOf(id)]>>
                       /\ articles'[IntegerOf(id)].archived = body.archived.bv
             /\ (id = BulkSegment /\
                   (body.articleIds.t # "arr" \/ body.articleIds.av = <<>> \/
                      body.archived.t # "bool"))
                  => resp'.status = 400
             /\ resp'.status \in {400, 404} =>
                  \A i \in DOMAIN articles :
                    articles'[i].archived = articles[i].archived]_vars

\* n = ceil(count / limit), for a positive limit.
IsCeil(n, count, limit) ==
  /\ n \in Nat
  /\ n * limit >= count
  /\ n > 0 => (n - 1) * limit < count

\* The page or limit a query parameter asks for: its value when it is a
\* positive integer, the endpoint's default otherwise.
Asked(value, default) ==
  IF value = Str(<<"2">>) THEN 2
  ELSE IF value = Str(<<"3">>) THEN 3
  ELSE default

\* C13: a list answered 200 carries a positive page P and limit L, those
\* asked for (defaults 1 and 9); its articles are the rows at positions
\* (P-1)*L+1 .. P*L of the rows the filter matched, newest createdAt first;
\* total is the number of rows the count matched and totalPages is
\* ceil(total / L); and when both queries read the same rows, a page beyond
\* the last is empty (3 matching articles and limit 2 give 2 articles and
\* totalPages 2 on page 1, the remaining 1 on page 2, none on page 3).
C13_Pagination ==
  (resp.op = "list" /\ resp.status = 200) =>
    LET p == resp.pagination
        first == (p.page - 1) * p.limit + 1
        positions ==
          {i \in DOMAIN resp.read : first <= i /\ i <= p.page * p.limit}
    IN /\ p.page \in Nat \ {0}
       /\ p.limit \in Nat \ {0}
       /\ p.page = Asked(resp.args.page, 1)
       /\ p.limit = Asked(resp.args.limit, 9)
       /\ \A i, j \in DOMAIN resp.read :
            /\ i # j => resp.read[i] # resp.read[j]
            /\ i < j => articles[resp.read[i]].createdAt
                          >= articles[resp.read[j]].createdAt
       /\ Len(resp.articles) = Cardinality(positions)
       /\ \A k \in DOMAIN resp.articles :
            resp.articles[k] = articles[resp.read[first + k - 1]]
       /\ p.total = Cardinality(resp.counted)
       /\ IsCeil(p.totalPages, p.total, p.limit)
       /\ resp.counted = Range(resp.read) =>
            /\ p.page > p.totalPages => resp.articles = <<>>
            /\ (p.total = 3 /\ p.limit = 2) =>
                 /\ p.totalPages = 2
                 /\ p.page = 1 => Len(resp.articles) = 2
                 /\ p.page = 2 => Len(resp.articles) = 1
                 /\ p.page = 3 => Len(resp.articles) = 0

C13_Witness ==
  /\ resp.op = "list"
  /\ resp.status = 200
  /\ resp.pagination.total = 3
  /\ resp.pagination.limit = 2
  /\ resp.pagination.page = 2
  /\ Len(resp.articles) = 1
  /\ resp.articles[1].id = 1
  /\ articles[1].createdAt < articles[3].createdAt

\* C14: a list answered for showArchived=false holds only articles that are
\* not archived, a list answered for showArchived=true holds only archived
\* articles, and total counts exactly the articles of the requested state.
C14_ListFilteredByArchiveState ==
  (resp.op = "list" /\ resp.status = 200) =>
    LET wanted == (resp.args.showArchived = Str(TrueString)) IN
      /\ \A k \in DOMAIN resp.articles : resp.articles[k].archived = wanted
      /\ \A i \in resp.counted : articles[i].archived = wanted
      /\ resp.pagination.total = Cardinality(resp.counted)

\* C15: createdAt of an article never changes, and a step that changes an
\* article some time after it was last written leaves its updatedAt later
\* than it was.
C15_Timestamps ==
  [][\A i \in DOMAIN articles :
       /\ i \in DOMAIN articles'
       /\ articles'[i].createdAt = articles[i].createdAt
       /\ (articles'[i] # articles[i] /\ now > articles[i].updatedAt)
            => articles'[i].updatedAt > articles[i].updatedAt]_vars

\* The ids of the articles an archive request names: the integer its id
\* segment starts with, or for the bulk path the numbers of its id list.
Targets(args) ==
  IF args.id = BulkSegment
  THEN IF args.body.articleIds.t = "arr"
       THEN RequestedIds(args.body.articleIds.av)
       ELSE {}
  ELSE IF isNaN(parseInt(args.id)) THEN {} ELSE {parseInt(args.id).nv}

\* C16: no step changes the id, title, content, summary, imageUrl, audioUrl
\* or createdAt of an article, or any citation row; the archived flag of an
\* article changes only in a step that answers an archive request 200, to the
\* value the request carries, and only for an article the request names; an
\* archive request adds no row; a list, citations or speech request changes
\* no row at all.
C16_OnlyArchiveFlagChanges ==
  [][/\ \A i \in DOMAIN articles :
          /\ i \in DOMAIN articles'
          /\ articles'[i].id = articles[i].id
          /\ articles'[i].title = articles[i].title
          /\ articles'[i].content = articles[i].content
          /\ articles'[i].summary = articles[i].summary
          /\ articles'[i].imageUrl = articles[i].imageUrl
          /\ articles'[i].audioUrl = articles[i].audioUrl
          /\ articles'[i].createdAt = articles[i].createdAt
          /\ articles'[i].archived # articles[i].archived
               => /\ resp'.op \in {"archive", "bulk"}
                  /\ resp'.status = 200
                  /\ i \in Targets(resp'.args)
                  /\ articles'[i].archived = resp'.args.body.archived.bv
     /\ \A i \in DOMAIN citations :
          i \in DOMAIN citations' /\ citations'[i] = citations[i]
     /\ resp'.op \in {"archive", "bulk"}
          => Len(articles') = Len(articles) /\ citations' = citations
     /\ (resp'.op \in {"list", "citations", "speech"} \/ listReq' # listReq)
          => articles' = articles /\ citations' = citations]_vars

C16_Witness ==
  /\ resp.op = "archive"
  /\ resp.status = 200
  /\ resp.args.id = <<"2">>
  /\ resp.args.body.archived = Bool(FALSE)
  /\ Len(articles) = 3
  /\ articles[1].archived
  /\ ~articles[2].archived
  /\ Len(citations) = 6

\* C17: no step removes an article or changes its id; archived is a boolean,
\* FALSE in a row just inserted; and for an archived article the citations
\* request is answered 200 with its citations and the speech request is not
\* answered 404: its speech is synthesized.
C17_ArticlesAreNeverRemoved ==
  [][/\ \A i \in DOMAIN articles :
          i \in DOMAIN articles' /\ articles'[i].id = articles[i].id
     /\ \A i \in DOMAIN articles' : articles'[i].archived \in BOOLEAN
     /\ \A i \in DOMAIN articles' \ DOMAIN articles : ~articles'[i].archived
     /\ \A i \in DOMAIN articles' :
          (articles'[i].archived /\ resp' # NoResp /\
             resp'.op \in {"citations", "speech"} /\
             parseInt(resp'.args.id) = Num(i))
            => IF resp'.op = "citations"
               THEN /\ resp'.status = 200
                    /\ Len(resp'.rows) =
                         Cardinality({j \in DOMAIN citations' :
                                        citations'[j].articleId = i})
                    /\ \A k \in DOMAIN resp'.rows : resp'.rows[k].articleId = i
               ELSE /\ resp'.status \in {200, 500}
                    /\ resp'.calls = 1]_vars

C17_Witness ==
  /\ resp.op = "speech"
  /\ resp.status = 200
  /\ resp.args.id = <<"1">>
  /\ Len(articles) = 3
  /\ articles[1].archived

\* C18: a speech request changes no row; it is answered 400 for an id that
\* is not an integer and 404 for an id no article has, without a call to the
\* speech provider; for an article's id it issues exactly one call and, when
\* the call succeeds, answers 200 with the audio of the article's content
\* (tags stripped) as audio/mpeg.
C18_SpeechEndpoint ==
  [][resp'.op = "speech" =>
       LET id == resp'.args.id IN
         /\ articles' = articles
         /\ citations' = citations
         /\ IF ~IsInteger(id)
            THEN resp'.status = 400 /\ resp'.calls = 0
            ELSE IF IntegerOf(id) \notin DOMAIN articles
            THEN resp'.status = 404 /\ resp'.calls = 0
            ELSE /\ resp'.calls = 1
                 /\ resp'.status \in {200, 500}
                 /\ resp'.status = 200 =>
                      /\ resp'.contentType = "audio/mpeg"
                      /\ resp'.buffer =
                           Mp3(StripTags(articles[IntegerOf(id)].content))]_vars

\* The messages the generate handler itself gives its failures.
StageMessages ==
  { "OpenAI API key is not configured", "Failed to generate article content",
    "No content generated from OpenAI", "Failed to parse generated content",
    "Failed to generate or process image", "Failed to generate audio content",
    "Failed to save article to database" }

\* C19: the error of a generate request answered 500 is one of the handler's
\* own stage messages, and two requests that failed at the same stage after
\* receiving the same completion (or none: the text call threw) carry the
\* same status and the same error.
C19_NoProviderErrorLeak ==
  /\ \A r \in Reqs : req[r].status = 500 => req[r].error \in StageMessages
  /\ \A r, r2 \in Reqs :
       (req[r].pc = "done" /\ req[r2].pc = "done" /\
          req[r].failedAt # "none" /\ req[r].failedAt = req[r2].failedAt /\
          req[r].content = req[r2].content)
         => /\ req[r].status = req[r2].status
            /\ req[r].error = req[r2].error

\* The stages of a generate request that call a provider or the bucket.
ProviderStages == {"text", "imageGen", "download", "upload", "audio"}

\* How often the request started the stage.
Started(q, stage) == Cardinality({i \in DOMAIN q.log : q.log[i] = stage})

\* C20: a generate request starts each of its text, image, download, upload
\* and speech calls at most once, and starts no call after one has failed;
\* a speech request issues at most one speech call, exactly one when the
\* call failed.
C20_NoRetry ==
  /\ \A r \in Reqs :
       /\ \A stage \in ProviderStages : Started(req[r], stage) <= 1
       /\ req[r].failedAt # "none" =>
            /\ req[r].pc = "done"
            /\ Last(req[r].log) = req[r].failedAt
            /\ Started(req[r], req[r].failedAt) = 1
  /\ resp.op = "speech" =>
       /\ resp.calls <= 1
       /\ resp.status = 500 => resp.calls = 1

C20_Witness ==
  /\ resp.op = "speech"
  /\ resp.status = 500
  /\ req[1].failedAt = "upload"
  /\ req[1].log = <<"text", "validate", "imageGen", "download", "upload">>

\* The article a request returns is the one its own calls computed: the
\* draft validated from its own completion, the signed URL of the key it
\* built from that draft's title, the speech of that draft's content.
OwnArticle(q, article) ==
  /\ q.draft = validateArticleResponse(q.content.json.val)
  /\ article.title = q.draft.title
  /\ article.content = q.draft.content
  /\ article.summary = q.draft.summary
  /\ q.fileName.slug = Slug(q.draft.title)
  /\ article.imageUrl = SignedUrl(q.fileName)
  /\ article.audioUrl = DataUrl(StripTags(q.draft.content))

\* C21: the step in which a generate request gets its article adds exactly
\* one row, with an id no row had, and a request gets an article once; every
\* request answered 200 has such a row, no other request has the same one
\* (so two successful submissions, of the same topic or not, leave two
\* articles), and the article it returns carries the title, content,
\* summary, imageUrl and audioUrl that its own calls computed.
C21_OneArticlePerSuccess ==
  [][\A r \in Reqs :
       /\ req'[r].article # req[r].article =>
            /\ req[r].article = NoArticle
            /\ \A i \in DOMAIN articles : articles[i].id # req'[r].article.id
            /\ Len(articles') = Len(articles) + 1
            /\ articles'[Len(articles')] = req'[r].article
            /\ \A i \in DOMAIN articles : articles'[i] = articles[i]
       /\ req'[r].status = 200 =>
            /\ req'[r].article # NoArticle
            /\ req'[r].article.id \in DOMAIN articles'
            /\ articles'[req'[r].article.id].id = req'[r].article.id
            /\ OwnArticle(req'[r], req'[r].article)
            /\ OwnArticle(req'[r], articles'[req'[r].article.id])
            /\ \A r2 \in Reqs \ {r} :
                 req'[r2].article # NoArticle =>
                   req'[r2].article.id # req'[r].article.id
       /\ Len(articles') =
            Cardinality({r2 \in Reqs : req'[r2].article # NoArticle})]_vars

C21_Witness ==
  /\ \A r \in Reqs : req[r].status = 200
  /\ req[1].content = req[2].content
  /\ req[1].content = Text(ReplyTwoCitations)
  /\ req[1].article.id = 2
  /\ req[2].article.id = 1
  /\ Len(articles) = 2

\* C22: no two generate requests build the same object key, and no step
\* replaces an object of the bucket: an image stored for one request is
\* never overwritten by another.
C22_ImageKeysNeverCollide ==
  [][/\ \A r, r2 \in Reqs :
          (r # r2 /\ req'[r].fileName # NoFile) =>
            req'[r].fileName # req'[r2].fileName
     /\ \A k \in DOMAIN s3 : k \in DOMAIN s3' /\ s3'[k] = s3[k]]_vars

\* C23: a generate request whose topic is not a string of at least 3
\* characters has issued no text-generation call (enhanceResearchPrompt is
\* evaluated for the call's prompt): its log of started stages is empty.
C23_ShortTopicMakesNoTextCall ==
  \A r \in Reqs :
    LET q == req[r] IN
      (q.pc # "idle" /\ q.topic # Dead /\
         (q.topic.t # "str" \/ Len(q.topic.sv) < 3))
        => q.log = <<>>

\* The limits of the README: requests per hour.
ReadmeLimit(client) == IF client.auth THEN 100 ELSE 20

\* C24: a request is passed on exactly when it is among the first 100 (of an
\* authenticated user) or the first 20 (of an unauthenticated client) that
\* the client has sent in the window, whatever the other clients have sent.
C24_TieredRateLimit ==
  limiter.last # NoRequest =>
    LET client == limiter.last.client IN
      /\ limiter.last.totalHits = limiter.sent[client]
      /\ (limiter.last.status = 200) =
           (limiter.sent[client] <= ReadmeLimit(client))
      /\ limiter.last.status \in {200, 429}

\* The response of a request that is over: 400 for an invalid topic, 500
\* with an error message for a failure, 200 with the created article
\* otherwise.
Responded(q) ==
  /\ q.status \in {200, 400, 500}
  /\ q.status = 400 => (q.log = <<>> /\ q.error = "Invalid topic provided")
  /\ q.status = 500 =>
       /\ q.error # ""
       /\ q.failedAt # "none" \/ q.error = "OpenAI API key is not configured"
  /\ q.status = 200 =>
       /\ q.failedAt = "none"
       /\ q.article # NoArticle
       /\ q.article.id \in DOMAIN articles
  /\ q.failedAt # "none" => q.status = 500

\* C25: when every external call eventually returns or raises, a generate
\* request that has arrived is eventually over with its response sent; a
\* request sends no response before it is over, the response is 400, 500 with
\* an error message or 200 with the article, by what happened to it, and once
\* sent the response is never sent again or changed.
C25_GenerateTerminates ==
  /\ \A r \in Reqs :
       (req[r].pc # "idle") ~> (req[r].pc = "done" /\ Responded(req[r]))
  /\ [](\A r \in Reqs :
          /\ req[r].pc # "done" => (req[r].status = 0 /\ req[r].error = "")
          /\ req[r].pc = "done" => Responded(req[r]))
  /\ [][\A r \in Reqs :
          req[r].pc = "done" =>
            /\ req'[r].pc = "done"
            /\ req'[r].status = req[r].status
            /\ req'[r].error = req[r].error]_vars

C25_Witness ==
  /\ req[1].pc = "done"
  /\ req[1].status = 500
  /\ req[1].failedAt = "insertCitations"
  /\ req[1].pending # {}
  /\ req[2].status = 200
  /\ req[2].log = StageOrder

\* No element occurs twice in the list.
NoDuplicates(list) == \A i, j \in DOMAIN list : list[i] = list[j] => i = j

\* C26: a Load More request asks for a page no greater than the totalPages
\* of the data it was pressed on; and once a Load More from page p has
\* succeeded, the list the page shows is the list shown before followed by
\* the articles of page p+1, no article twice, also after the request of
\* useSWR for the new key has settled.
C26_LoadMoreAccumulates ==
  /\ home.fetch.who = "loadMore" =>
       home.fetch.page + 1 <= home.fetch.data.pagination.totalPages
  /\ home.merged # NoMerge =>
       /\ Articles(home) = home.merged.before \o home.merged.added
       /\ NoDuplicates([i \in DOMAIN Articles(home) |-> Articles(home)[i].id])

\* C27: the selection of the page never holds an id twice, nor do the
\* articleIds of a bulk request it sends; and a bulk request whose articleIds
\* repeat an id is answered, when an id is an article's, 200 with each such
\* article once, carrying the requested flag.
C27_ArticleIdsAreASet ==
  /\ home # NoHome =>
       /\ NoDuplicates(home.selectedArticles)
       /\ NoDuplicates(home.articleIds)
       /\ home.fetch.who = "bulk" => NoDuplicates(home.fetch.body.articleIds.av)
  /\ (IsPatch /\ resp.args.id = BulkSegment /\
        resp.args.body.articleIds.t = "arr" /\
        ~NoDuplicates(resp.args.body.articleIds.av) /\
        resp.args.body.archived.t = "bool" /\
        RequestedIds(resp.args.body.articleIds.av) \cap DOMAIN articles # {})
       => LET matched ==
                RequestedIds(resp.args.body.articleIds.av) \cap DOMAIN articles
          IN /\ resp.status = 200
             /\ Len(resp.rows) = Cardinality(matched)
             /\ {resp.rows[j].id : j \in DOMAIN resp.rows} = matched
             /\ \A i \in matched :
                  articles[i].archived = resp.args.body.archived.bv

\* C28: since the user last pressed the microphone, the form has restarted
\* recognition by itself at most MAX_RETRIES times, the attempt numbers it
\* showed are 1, 2, 3 in this order, and a restart is pending only after a
\* network error; once it has reported an error or received a result, the
\* retry count is 0 and no restart is pending.
C28_SpeechRetryIsBounded ==
  form # NoForm =>
    /\ form.restarts <= MAX_RETRIES
    /\ Len(form.attempts) <= MAX_RETRIES
    /\ \A i \in DOMAIN form.attempts : form.attempts[i] = i
    /\ form.timer => form.attempts # <<>>
    /\ (form.reported /\ form.recognition = "none") =>
         (form.retryCount = 0 /\ ~form.timer)

\* C29: a generate request answered 400 or 500 has left no article row and
\* no citation row; a request answered 200 has its article row in the table
\* and, when the response is sent, one citation row for every citation of
\* its validated draft.
C29_ArticleIffSuccess ==
  \A r \in Reqs :
    LET q == req[r] IN
      /\ q.status \in {400, 500} =>
           /\ q.article = NoArticle
           /\ CitationsBy(r) = {}
      /\ q.status = 200 =>
           /\ q.article.id \in DOMAIN articles
           /\ q.pending = {}
           /\ Cardinality(CitationsBy(r)) = Len(q.draft.citations)

\* C30: the total of a list answered 200 is the number of articles the
\* filter matched when the page was read, totalPages is the number of pages
\* of that many articles, and a page that starts before the end holds
\* min(limit, total - offset) articles.
C30_ListIsOneSnapshot ==
  (resp.op = "list" /\ resp.status = 200) =>
    LET p == resp.pagination
        offset == (p.page - 1) * p.limit
    IN /\ p.total = Len(resp.read)
       /\ IsCeil(p.totalPages, Len(resp.read), p.limit)
       /\ offset < p.total =>
            Len(resp.articles) =
              (IF p.total - offset < p.limit THEN p.total - offset ELSE p.limit)

====
